---- MODULE Spec2Model ----
(***************************************************************************)
(* quicos: a minimal tunnelling protocol.                                  *)
(*                                                                         *)
(*   - the wire codec of Address, Request and Response (request.rs,        *)
(*     response.rs), as operators on sequences of bytes;                   *)
(*   - the Server and Client endpoints (server.rs, client.rs): the start   *)
(*     loop that pulls items from a Provider and spawns one handler per    *)
(*     item, and the handler's handshake followed by the relay.            *)
(*                                                                         *)
(* A byte is an integer in 0..255, a stream a sequence of bytes.           *)
(***************************************************************************)
EXTENDS Integers, Sequences, FiniteSets, TLC

VARIABLES
    role,     \* which endpoint was constructed: "server", "client", or "codec"
    loop,     \* position of the start loop
    held,     \* Client::start: the (local, request) item held by the iteration
    pulls,    \* what the start loop did so far (counters and flags)
    h,        \* the spawned handlers, one record per slot
    cPc,      \* codec: "start", "encoded", "decoded"
    cIn,      \* codec: the value (or raw stream) under test
    cWire,    \* codec: the bytes on the stream
    cOut,     \* codec: the result of read
    build     \* the builders, what they built, and the calls made on them

vars == <<role, loop, held, pulls, h, cPc, cIn, cWire, cOut, build>>

----------------------------------------------------------------------------
(* Bounds *)

MaxNameLen == 2
MaxConn == 2
MaxRelayBytes == 1
MaxCopyBytes == 3
MaxCalls == 6

----------------------------------------------------------------------------
(* Wire constants *)

SUCCEED == 1
NO_ACCEPTABLE_REQUEST == 255
REQUEST_TYPE_TCP_CONNECT == 1
ADDRESS_TYPE_DOMAIN == 1
ADDRESS_TYPE_IPV4 == 2
ADDRESS_TYPE_IPV6 == 3

Byte == 0..255

\* a variant: a conversion that saturates
U8Saturating(n) == IF n > 255 THEN 255 ELSE n

\* `as u8`
U8(n) == n % 256

Hi(n) == (n \div 256) % 256

Lo(n) == n % 256

\* a variant: u16::to_le_bytes
ToLeBytes(port) == <<Lo(port), Hi(port)>>

\* u16::to_be_bytes
ToBeBytes(port) == <<Hi(port), Lo(port)>>

\* ((hi as u16) << 8) | (lo as u16)
U16Of(hi, lo) == ((hi * 256) % 65536) + lo

Take(s, n) == SubSeq(s, 1, n)

Drop(s, n) == SubSeq(s, n + 1, Len(s))

IsPrefix(p, s) == Len(p) <= Len(s) /\ Take(s, Len(p)) = p

----------------------------------------------------------------------------
(* Values *)

Domain(name, port) == [tag |-> "Domain", name |-> name, port |-> port]

IPv4(ip, port) == [tag |-> "IPv4", ip |-> ip, port |-> port]

\* SocketAddrV6 carries ip, port, flowinfo and scope_id
IPv6(ip, port, flowinfo, scope) ==
    [tag |-> "IPv6", ip |-> ip, port |-> port, flowinfo |-> flowinfo, scope_id |-> scope]

TCPConnect(addr) == [tag |-> "TCPConnect", addr |-> addr]

Succeed == "Succeed"

NoAcceptableMethod == "NoAcceptableMethod"

\* Results of a read: Ok(value), Err(other), Err(UnexpectedEof)
Ok(v, n) == [kind |-> "ok", val |-> v, consumed |-> n]

ErrOther(n) == [kind |-> "other", consumed |-> n]

ErrEof(n) == [kind |-> "eof", consumed |-> n]

----------------------------------------------------------------------------
(* std::str::from_utf8: the well-formed byte sequences of UTF-8.  Every byte
   that is not a continuation byte starts a character of the length its value
   announces, followed by exactly that many continuation bytes; every
   continuation byte belongs to such a character. *)

IsCont(b) == b \in 128..191

\* the length announced by a lead byte, 0 when the byte cannot start a character
CharLen(b) ==
    IF b < 128 THEN 1
    ELSE IF b \in 194..223 THEN 2
    ELSE IF b \in 224..239 THEN 3
    ELSE IF b \in 240..244 THEN 4
    ELSE 0

\* the narrower range of the byte that follows E0, ED, F0 and F4
SecondOk(lead, b) ==
    /\ (lead = 224 => b >= 160)
    /\ (lead = 237 => b <= 159)
    /\ (lead = 240 => b >= 144)
    /\ (lead = 244 => b <= 143)

CharAt(s, i) ==
    LET n == CharLen(s[i])
    IN  /\ n >= 1
        /\ i + n - 1 <= Len(s)
        /\ \A m \in 1..(n - 1) : IsCont(s[i + m])
        /\ (n >= 2 => SecondOk(s[i], s[i + 1]))

InsideChar(s, i) ==
    \E k \in 1..3 :
        /\ i - k >= 1
        /\ CharLen(s[i - k]) > k
        /\ \A m \in 1..(k - 1) : IsCont(s[i - m])

Utf8Valid(s) ==
    \A i \in 1..Len(s) : IF IsCont(s[i]) THEN InsideChar(s, i) ELSE CharAt(s, i)


----------------------------------------------------------------------------
(* Response codec *)

ResponseToBytes(r) ==
    IF r = Succeed THEN <<SUCCEED>> ELSE <<NO_ACCEPTABLE_REQUEST>>

\* a variant that rejects the bytes it does not know
ResponseReadStrict(s) ==
    IF Len(s) < 1 THEN ErrEof(0)
    ELSE IF s[1] = SUCCEED THEN Ok(Succeed, 1)
    ELSE IF s[1] = NO_ACCEPTABLE_REQUEST THEN Ok(NoAcceptableMethod, 1)
    ELSE ErrOther(1)

ResponseRead(s) ==
    IF Len(s) < 1 THEN ErrEof(0)
    ELSE IF s[1] = SUCCEED THEN Ok(Succeed, 1)
    ELSE Ok(NoAcceptableMethod, 1)

----------------------------------------------------------------------------
(* Address codec *)

AddressToBytes(a) ==
    IF a.tag = "Domain"
    THEN <<ADDRESS_TYPE_DOMAIN, U8(Len(a.name))>> \o a.name \o ToBeBytes(a.port)
    ELSE IF a.tag = "IPv4"
    THEN <<ADDRESS_TYPE_IPV4>> \o a.ip \o ToBeBytes(a.port)
    ELSE <<ADDRESS_TYPE_IPV6>> \o a.ip \o ToBeBytes(a.port)

\* Ipv6Addr::new(a, b, c, d, e, f, g, h): the octets of eight 16-bit segments
Ipv6AddrNew(segs) == [i \in 1..16 |-> IF i % 2 = 1 THEN Hi(segs[(i + 1) \div 2])
                                                     ELSE Lo(segs[i \div 2])]

\* read_exact(buffer) of n bytes on the stream s, then decode(buffer)
\* pre = bytes already consumed
ReadDomain(s, pre) ==
    IF Len(s) < 1 THEN ErrEof(pre)
    ELSE LET domain_len == s[1]
             rest == Drop(s, 1)
         IN  IF Len(rest) < domain_len + 2 THEN ErrEof(pre + 1 + Len(rest))
             ELSE LET buffer == Take(rest, domain_len + 2)
                      name == Take(buffer, domain_len)
                  IN  IF ~Utf8Valid(name) THEN ErrOther(pre + 1 + domain_len + 2)
                      ELSE Ok(Domain(name, U16Of(buffer[domain_len + 1], buffer[domain_len + 2])),
                              pre + 1 + domain_len + 2)

\* a variant that answers with what arrived when the stream ends early
ReadIPv4Partial(s, pre) ==
    LET buffer == [k \in 1..6 |-> IF k <= Len(s) THEN s[k] ELSE 0]
    IN  Ok(IPv4(<<buffer[1], buffer[2], buffer[3], buffer[4]>>, U16Of(buffer[5], buffer[6])),
           pre + (IF Len(s) < 6 THEN Len(s) ELSE 6))

ReadIPv4(s, pre) ==
    IF Len(s) < 4 + 2 THEN ErrEof(pre + Len(s))
    ELSE LET buffer == Take(s, 4 + 2)
         IN  Ok(IPv4(<<buffer[1], buffer[2], buffer[3], buffer[4]>>, U16Of(buffer[5], buffer[6])),
                pre + 4 + 2)

ReadIPv6(s, pre) ==
    IF Len(s) < 16 + 2 THEN ErrEof(pre + Len(s))
    ELSE LET buffer == Take(s, 16 + 2)
             segs == [k \in 1..8 |-> U16Of(buffer[2 * k - 1], buffer[2 * k])]
         IN  Ok(IPv6(Ipv6AddrNew(segs), U16Of(buffer[17], buffer[18]), 0, 0), pre + 16 + 2)

\* a variant that takes every unknown tag for a domain
AddressReadDefaultsToDomain(s) ==
    IF Len(s) < 1 THEN ErrEof(0)
    ELSE LET address_type == s[1]
             rest == Drop(s, 1)
         IN  IF address_type = ADDRESS_TYPE_IPV4 THEN ReadIPv4(rest, 1)
             ELSE IF address_type = ADDRESS_TYPE_IPV6 THEN ReadIPv6(rest, 1)
             ELSE ReadDomain(rest, 1)

AddressRead(s) ==
    IF Len(s) < 1 THEN ErrEof(0)
    ELSE LET address_type == s[1]
             rest == Drop(s, 1)
         IN  IF address_type = ADDRESS_TYPE_DOMAIN THEN ReadDomain(rest, 1)
             ELSE IF address_type = ADDRESS_TYPE_IPV4 THEN ReadIPv4(rest, 1)
             ELSE IF address_type = ADDRESS_TYPE_IPV6 THEN ReadIPv6(rest, 1)
             ELSE ErrOther(1)

----------------------------------------------------------------------------
(* Request codec *)

RequestToBytes(r) == <<REQUEST_TYPE_TCP_CONNECT>> \o AddressToBytes(r.addr)

RequestRead(s) ==
    IF Len(s) < 1 THEN ErrEof(0)
    ELSE LET request_type == s[1]
         IN  IF request_type = REQUEST_TYPE_TCP_CONNECT
             THEN LET a == AddressRead(Drop(s, 1))
                  IN  IF a.kind = "ok" THEN Ok(TCPConnect(a.val), 1 + a.consumed)
                      ELSE [a EXCEPT !.consumed = 1 + a.consumed]
             ELSE ErrOther(1)

----------------------------------------------------------------------------
(* Codec inputs *)

NameBytes == {0, 46, 97, 127, 169, 195}

Ports == {0, 80, 9000, 65535}

RECURSIVE SeqsUpTo(_, _)
SeqsUpTo(S, n) ==
    IF n = 0 THEN {<<>>}
    ELSE LET shorter == SeqsUpTo(S, n - 1)
         IN  shorter \cup {Append(s, b) : s \in shorter, b \in S}

LongName(n) == [i \in 1..n |-> 97]

LongLens == {254, 255, 256, 257}

\* a String holds valid UTF-8 only
Names == {s \in SeqsUpTo(NameBytes, MaxNameLen) : Utf8Valid(s)}
             \cup {LongName(n) : n \in LongLens}

Ipv4Ips == {<<0, 0, 0, 0>>, <<255, 255, 255, 255>>, <<127, 0, 0, 1>>}

Ipv6Ips == {[i \in 1..16 |-> 0], [i \in 1..16 |-> 255],
            <<32, 1, 13, 184, 0, 0, 0, 0, 0, 0, 0, 0, 0, 0, 0, 1>>}

Addresses ==
    {Domain(n, p) : n \in Names, p \in Ports}
        \cup {IPv4(ip, p) : ip \in Ipv4Ips, p \in Ports}
        \cup {IPv6(ip, p, f, sc) : ip \in Ipv6Ips, p \in Ports, f \in {0, 1}, sc \in {0, 5}}

Responses == {Succeed, NoAcceptableMethod}

\* raw streams handed to a decoder: every single byte, alone and followed by more
RawStreams ==
    {<<b>> : b \in Byte} \cup {<<b, 7>> : b \in Byte} \cup {<<>>}
        \cup {<<REQUEST_TYPE_TCP_CONNECT, b>> : b \in Byte}

\* bytes that follow a message on the stream
Trailers == {<<>>, <<7>>, <<1, 2>>}

\* what a peer can put on a stream where an Address is expected: a whole
\* message with or without more bytes after it, and a message cut short (by its
\* last byte, or after its first one, two or three bytes)
AddressStreams ==
    LET wires == {AddressToBytes(a) : a \in Addresses}
    IN  {w \o t : w \in wires, t \in Trailers}
            \cup {Take(w, Len(w) - 1) : w \in wires}
            \cup {Take(w, k) : w \in wires, k \in 1..3}
            \cup {<<ADDRESS_TYPE_DOMAIN, 255>> \o LongName(254)}

CodecInputs ==
    {[ty |-> "addr", addr |-> a] : a \in Addresses}
        \cup {[ty |-> "req", req |-> TCPConnect(a)] : a \in Addresses}
        \cup {[ty |-> "resp", resp |-> r] : r \in Responses}
        \cup {[ty |-> "raw", as |-> d, bytes |-> s] : d \in {"addr", "req", "resp"}, s \in RawStreams}
        \cup {[ty |-> "raw", as |-> "addr", bytes |-> s] : s \in AddressStreams}

DecoderOf(in) == IF in.ty = "raw" THEN in.as ELSE in.ty

NoOut == [kind |-> "none"]

----------------------------------------------------------------------------
(* Codec steps: to_bytes on a value, read on the resulting stream *)

EndpointVars == <<role, loop, held, pulls, h>>

CodecVars == <<cPc, cIn, cWire, cOut>>

EncodeAddress ==
    /\ role = "codec" /\ cPc = "start" /\ cIn.ty = "addr"
    /\ cWire' = AddressToBytes(cIn.addr)
    /\ cPc' = "encoded"
    /\ UNCHANGED <<cIn, cOut, EndpointVars, build>>

EncodeRequest ==
    /\ role = "codec" /\ cPc = "start" /\ cIn.ty = "req"
    /\ cWire' = RequestToBytes(cIn.req)
    /\ cPc' = "encoded"
    /\ UNCHANGED <<cIn, cOut, EndpointVars, build>>

EncodeResponse ==
    /\ role = "codec" /\ cPc = "start" /\ cIn.ty = "resp"
    /\ cWire' = ResponseToBytes(cIn.resp)
    /\ cPc' = "encoded"
    /\ UNCHANGED <<cIn, cOut, EndpointVars, build>>

\* a peer's bytes arrive on the stream as they are
FeedRaw ==
    /\ role = "codec" /\ cPc = "start" /\ cIn.ty = "raw"
    /\ cWire' = cIn.bytes
    /\ cPc' = "encoded"
    /\ UNCHANGED <<cIn, cOut, EndpointVars, build>>

DecodeAddress ==
    /\ role = "codec" /\ cPc = "encoded" /\ DecoderOf(cIn) = "addr"
    /\ cOut' = AddressRead(cWire)
    /\ cPc' = "decoded"
    /\ UNCHANGED <<cIn, cWire, EndpointVars, build>>

DecodeRequest ==
    /\ role = "codec" /\ cPc = "encoded" /\ DecoderOf(cIn) = "req"
    /\ cOut' = RequestRead(cWire)
    /\ cPc' = "decoded"
    /\ UNCHANGED <<cIn, cWire, EndpointVars, build>>

DecodeResponse ==
    /\ role = "codec" /\ cPc = "encoded" /\ DecoderOf(cIn) = "resp"
    /\ cOut' = ResponseRead(cWire)
    /\ cPc' = "decoded"
    /\ UNCHANGED <<cIn, cWire, EndpointVars, build>>

----------------------------------------------------------------------------
(* Endpoint state *)

Slots == 1..MaxConn

None == [tag |-> "None"]

\* One handler task.  Stream A is the accepted stream (server) or the local
\* stream (client); stream B is the dialed connection (server) or the remote
\* stream (client).
\*   aIn / bIn     bytes the peer sent on A / B that the handler has not read
\*   aOut / bOut   bytes the handler's own writes put on A / B
\*   relAB / relBA bytes the running relay has written to B / to A
\*   aSent / bSent number of bytes the peer sent on A / B during the relay
\*   aHeld / bHeld "none", "owned", "released": the handler's ownership
\*   bufAB / bufBA relay: bytes read from one side, not yet written to the other
\*   doneAB/doneBA relay: that direction read end-of-stream and shut down
\*   trace         the steps the handler completed, in order
\*   respByte      client: the response byte read from the remote stream, or -1
\*   lookups       server: the calls to_socket_address made on the resolver, kept
\*                 with its result
Unborn ==
    [pc |-> "unborn", aId |-> 0, bId |-> 0,
     aIn |-> <<>>, aOut |-> <<>>, aHeld |-> "none", aSent |-> 0,
     bIn |-> <<>>, bOut |-> <<>>, bHeld |-> "none", bSent |-> 0,
     request |-> None, address |-> None,
     bufAB |-> <<>>, bufBA |-> <<>>, relAB |-> <<>>, relBA |-> <<>>,
     doneAB |-> FALSE, doneBA |-> FALSE,
     trace |-> <<>>, respByte |-> -1, lookups |-> <<>>,
     result |-> "running", failedAt |-> "none"]

NoPulls ==
    [fetches |-> 0, noneSeen |-> FALSE,
     accepted |-> 0, locals |-> 0, remotes |-> 0, spawned |-> 0,
     unpaired |-> {}, releasedLocals |-> {}]

\* a variant that forgets the accepted stream on the error paths
ReturnLeaksOnError(hr, ok, at) ==
    [hr EXCEPT !.pc = "done",
               !.result = IF ok THEN "ok" ELSE "err",
               !.failedAt = at,
               !.aHeld = IF ok THEN "released" ELSE hr.aHeld,
               !.bHeld = IF hr.bHeld = "owned" THEN "released" ELSE hr.bHeld,
               !.aIn = <<>>, !.bIn = <<>>, !.bufAB = <<>>, !.bufBA = <<>>,
               !.relAB = <<>>, !.relBA = <<>>,
               !.aSent = 0, !.bSent = 0, !.doneAB = FALSE, !.doneBA = FALSE,
               !.request = None, !.address = None]

\* the handler returns: the streams it owns (its arguments and `connect`) are
\* dropped, and with them the relay, its buffers and its byte counts
Return(hr, ok, at) ==
    [hr EXCEPT !.pc = "done",
               !.result = IF ok THEN "ok" ELSE "err",
               !.failedAt = at,
               !.aHeld = "released",
               !.bHeld = IF hr.bHeld = "owned" THEN "released" ELSE hr.bHeld,
               !.aIn = <<>>, !.bIn = <<>>, !.bufAB = <<>>, !.bufBA = <<>>,
               !.relAB = <<>>, !.relBA = <<>>,
               !.aSent = 0, !.bSent = 0, !.doneAB = FALSE, !.doneBA = FALSE,
               !.request = None, !.address = None]

----------------------------------------------------------------------------
(* What the collaborators supply *)

Loopback == IPv4(<<127, 0, 0, 1>>, 9000)

ExampleDomain == Domain(<<97, 46, 97>>, 80)

LoopbackV6 == IPv6([i \in 1..16 |-> IF i = 16 THEN 1 ELSE 0], 9000, 0, 0)

\* what a peer sends on an accepted stream before it goes silent or closes
ServerInputs ==
    {RequestToBytes(TCPConnect(Loopback)),
     RequestToBytes(TCPConnect(ExampleDomain)),
     RequestToBytes(TCPConnect(LoopbackV6)),
     <<9>>,
     <<REQUEST_TYPE_TCP_CONNECT, 9>>,
     <<REQUEST_TYPE_TCP_CONNECT, ADDRESS_TYPE_IPV4, 127>>,
     <<>>}

\* the requests the local source pairs with a local stream
ClientRequests == {TCPConnect(ExampleDomain)}

\* what the far end sends on a remote stream before it goes silent or closes
ClientRemoteInputs == {<<SUCCEED>>, <<NO_ACCEPTABLE_REQUEST>>, <<0>>, <<>>}

\* a name of 257 bytes whose first character takes two bytes
SplitName == [k \in 1..257 |-> IF k = 257 THEN 97 ELSE IF k % 2 = 1 THEN 195 ELSE 169]

\* the requests of a client handler whose remote stream a server handler accepted
TunnelRequests ==
    {TCPConnect(Loopback), TCPConnect(LoopbackV6), TCPConnect(ExampleDomain),
     TCPConnect(Domain(SplitName, 80))}

\* in a tunnel, handler 1 is the client's and handler 2 the server's; the
\* client's remote stream (B) is the server's accepted stream (A)
TunnelClient == 1

TunnelServer == 2

IsServer(i) == role = "server" \/ (role = "tunnel" /\ i = TunnelServer)

IsClient(i) == role = "client" \/ (role = "tunnel" /\ i = TunnelClient)

\* a read on a connected stream returns once the bytes of a result are there,
\* or once the other end is closed (and then may meet end-of-stream)
Arrived(bytes, closed, result) == IF result.kind # "eof" \/ closed THEN {bytes} ELSE {}

\* what a read on the accepted stream of handler i can find
AcceptedInputs(i) ==
    IF role = "tunnel"
    THEN LET c == h[TunnelClient]
         IN  Arrived(c.bOut, c.bHeld = "released", RequestRead(c.bOut))
    ELSE ServerInputs

\* a variant in which a closed stream never reads as end-of-stream
RemoteInputsBlocking(i) ==
    IF role = "tunnel"
    THEN LET sv == h[TunnelServer]
         IN  Arrived(sv.aOut, FALSE, ResponseRead(sv.aOut))
    ELSE ClientRemoteInputs

\* what a read on the remote stream of handler i can find
RemoteInputs(i) ==
    IF role = "tunnel"
    THEN LET sv == h[TunnelServer]
         IN  Arrived(sv.aOut, sv.aHeld = "released", ResponseRead(sv.aOut))
    ELSE ClientRemoteInputs

\* the socket address Resolver::lookup answers with
Lookup(name, port) == IPv4(<<10, 0, 0, 1>>, port)

----------------------------------------------------------------------------
(* Server::start *)

Fetched(p) == [p EXCEPT !.fetches = @ + 1]

\* a variant that awaits the handler in the loop instead of spawning it
ServerStartSomeInline ==
    /\ role = "server" /\ loop = "fetch"
    /\ pulls.spawned < MaxConn
    /\ \A i \in 1..MaxConn : h[i].pc \in {"unborn", "done"}
    /\ h' = [h EXCEPT ![pulls.spawned + 1] =
                [Unborn EXCEPT !.pc = "read", !.aId = pulls.accepted + 1, !.aHeld = "owned"]]
    /\ pulls' = [pulls EXCEPT !.fetches = @ + 1, !.accepted = @ + 1, !.spawned = @ + 1]
    /\ UNCHANGED <<role, loop, held, CodecVars, build>>

\* fetch() answered Some(stream): clone the context, spawn the handler
ServerStartSome ==
    /\ role = "server" /\ loop = "fetch"
    /\ pulls.spawned < MaxConn
    /\ h' = [h EXCEPT ![pulls.spawned + 1] =
                [Unborn EXCEPT !.pc = "read", !.aId = pulls.accepted + 1, !.aHeld = "owned"]]
    /\ pulls' = [Fetched(pulls) EXCEPT !.accepted = @ + 1, !.spawned = @ + 1]
    /\ UNCHANGED <<role, loop, held, CodecVars, build>>

\* fetch() answered None: the loop ends
ServerStartNone ==
    /\ role = "server" /\ loop = "fetch"
    /\ loop' = "done"
    /\ pulls' = [Fetched(pulls) EXCEPT !.noneSeen = TRUE]
    /\ UNCHANGED <<role, held, h, CodecVars, build>>

----------------------------------------------------------------------------
(* Client::start *)

\* self.local.fetch() answered Some((local, request))
ClientStartLocalSome ==
    /\ role = "client" /\ loop = "local"
    /\ pulls.locals < MaxConn
    /\ \E r \in ClientRequests :
         held' = [tag |-> "Some", id |-> pulls.locals + 1, request |-> r]
    /\ loop' = "remote"
    /\ pulls' = [Fetched(pulls) EXCEPT !.locals = @ + 1]
    /\ UNCHANGED <<role, h, CodecVars, build>>

\* a variant that takes a remote stream before it notices the loop is over
ClientStartLocalNonePullsRemote ==
    /\ role = "client" /\ loop = "local"
    /\ loop' = "done"
    /\ pulls' = [pulls EXCEPT !.fetches = @ + 2, !.noneSeen = TRUE, !.remotes = @ + 1]
    /\ UNCHANGED <<role, held, h, CodecVars, build>>

\* self.local.fetch() answered None: the loop ends
ClientStartLocalNone ==
    /\ role = "client" /\ loop = "local"
    /\ loop' = "done"
    /\ pulls' = [Fetched(pulls) EXCEPT !.noneSeen = TRUE]
    /\ UNCHANGED <<role, held, h, CodecVars, build>>

\* self.remote.fetch() answered Some(remote): spawn the handler on the pair
ClientStartRemoteSome ==
    /\ role = "client" /\ loop = "remote"
    /\ pulls.spawned < MaxConn
    /\ h' = [h EXCEPT ![pulls.spawned + 1] =
                [Unborn EXCEPT !.pc = "send",
                               !.aId = held.id, !.bId = pulls.remotes + 1,
                               !.request = held.request,
                               !.aHeld = "owned", !.bHeld = "owned"]]
    /\ held' = None
    /\ loop' = "local"
    /\ pulls' = [Fetched(pulls) EXCEPT !.remotes = @ + 1, !.spawned = @ + 1]
    /\ UNCHANGED <<role, CodecVars, build>>

\* a variant that keeps the local item and pairs it with the next remote
ClientStartRemoteNoneRetry ==
    /\ role = "client" /\ loop = "remote"
    /\ pulls.fetches < 2 * MaxConn
    /\ pulls' = [Fetched(pulls) EXCEPT !.noneSeen = TRUE, !.unpaired = @ \cup {held.id}]
    /\ UNCHANGED <<role, loop, held, h, CodecVars, build>>

\* self.remote.fetch() answered None: the body of the if is skipped, the local
\* item goes out of scope, and the while loop pulls the next local item
ClientStartRemoteNone ==
    /\ role = "client" /\ loop = "remote"
    /\ held' = None
    /\ loop' = "local"
    /\ pulls' = [Fetched(pulls) EXCEPT !.noneSeen = TRUE,
                                       !.unpaired = @ \cup {held.id},
                                       !.releasedLocals = @ \cup {held.id}]
    /\ UNCHANGED <<role, h, CodecVars, build>>

----------------------------------------------------------------------------
(* Server::handler *)

Step(i, hr) ==
    /\ h' = [h EXCEPT ![i] = hr]
    /\ UNCHANGED <<role, loop, held, pulls, CodecVars, build>>

\* let request = Request::read(&mut stream).await?;
\* the peer sent `input`; a read past its end is an end-of-stream error
ServerReadRequest(i) ==
    /\ IsServer(i) /\ h[i].pc = "read"
    /\ \E input \in AcceptedInputs(i) :
         LET r == RequestRead(input)
         IN  IF r.kind = "ok"
             THEN Step(i, [h[i] EXCEPT !.pc = "resolve", !.request = r.val,
                                       !.aIn = Drop(input, r.consumed),
                                       !.trace = Append(@, "read")])
             ELSE Step(i, Return(h[i], FALSE, "read"))

\* what Resolver::lookup can answer for a name and a port
ResolverAnswers(name, port) == {[kind |-> "ok", val |-> Lookup(name, port)], [kind |-> "err"]}

NoAnswer == [kind |-> "none"]

\* a variant that asks the resolver about every address
to_socket_address_asks_always(addr, answer) ==
    IF addr.tag = "Domain"
    THEN [result |-> answer, calls |-> <<[domain |-> addr.name, port |-> addr.port]>>]
    ELSE [result |-> [kind |-> "ok", val |-> addr],
          calls |-> <<[domain |-> addr.ip, port |-> addr.port]>>]

\* Address::to_socket_address: its result, and the calls it made on the
\* resolver, given the answer the resolver has for it
to_socket_address(addr, answer) ==
    IF addr.tag = "Domain"
    THEN [result |-> answer, calls |-> <<[domain |-> addr.name, port |-> addr.port]>>]
    ELSE [result |-> [kind |-> "ok", val |-> addr], calls |-> <<>>]

AnswersFor(addr) ==
    IF addr.tag = "Domain" THEN ResolverAnswers(addr.name, addr.port) ELSE {NoAnswer}

\* a variant that answers NoAcceptableMethod when the lookup fails
ToSocketAddressReplies(i) ==
    /\ IsServer(i) /\ h[i].pc = "resolve"
    /\ \E answer \in AnswersFor(h[i].request.addr) :
         LET r == to_socket_address(h[i].request.addr, answer)
             hr == [h[i] EXCEPT !.lookups = @ \o r.calls]
         IN  IF r.result.kind = "ok"
             THEN Step(i, [hr EXCEPT !.pc = "dial", !.request = None,
                                     !.address = r.result.val,
                                     !.trace = Append(@, "resolve")])
             ELSE Step(i, Return([hr EXCEPT !.aOut = @ \o ResponseToBytes(NoAcceptableMethod)],
                                 FALSE, "resolve"))

\* let address = addr.to_socket_address(&context.resolver).await?;
ToSocketAddress(i) ==
    /\ IsServer(i) /\ h[i].pc = "resolve"
    /\ \E answer \in AnswersFor(h[i].request.addr) :
         LET r == to_socket_address(h[i].request.addr, answer)
             hr == [h[i] EXCEPT !.lookups = @ \o r.calls]
         IN  IF r.result.kind = "ok"
             THEN Step(i, [hr EXCEPT !.pc = "dial", !.request = None,
                                     !.address = r.result.val,
                                     !.trace = Append(@, "resolve")])
             ELSE Step(i, Return(hr, FALSE, "resolve"))

\* let mut connect = TcpStream::connect(address).await?;
\* connect consumes `address`, and with it the record of how it was obtained
ServerDial(i) ==
    /\ IsServer(i) /\ h[i].pc = "dial"
    /\ \/ Step(i, [h[i] EXCEPT !.pc = "write", !.address = None, !.lookups = <<>>,
                               !.bId = h[i].aId, !.bHeld = "owned",
                               !.trace = Append(@, "dial")])
       \/ Step(i, Return([h[i] EXCEPT !.lookups = <<>>], FALSE, "dial"))

\* a variant that ignores the result of the write
ServerWriteResponseUnchecked(i) ==
    /\ IsServer(i) /\ h[i].pc = "write"
    /\ \/ Step(i, [h[i] EXCEPT !.pc = "relay",
                               !.aOut = h[i].aOut \o ResponseToBytes(Succeed),
                               !.trace = @ \o <<"write", "relay">>])
       \/ Step(i, [h[i] EXCEPT !.pc = "relay", !.trace = @ \o <<"write", "relay">>])

\* Response::Succeed.write(&mut stream).await?;
ServerWriteResponse(i) ==
    /\ IsServer(i) /\ h[i].pc = "write"
    /\ \/ Step(i, [h[i] EXCEPT !.pc = "relay",
                               !.aOut = h[i].aOut \o ResponseToBytes(Succeed),
                               !.trace = @ \o <<"write", "relay">>])
       \/ Step(i, Return(h[i], FALSE, "write"))

----------------------------------------------------------------------------
(* Client::handler *)

WritePrefixes(bytes) == {0, 1} \cap 0..(Len(bytes) - 1)

\* a variant that goes on to the response whatever the write returned
ClientWriteRequestUnchecked(i) ==
    /\ IsClient(i) /\ h[i].pc = "send"
    /\ LET bytes == RequestToBytes(h[i].request)
       IN  \E n \in WritePrefixes(bytes) \cup {Len(bytes)} :
             Step(i, [h[i] EXCEPT !.pc = "await", !.request = None,
                                  !.bOut = h[i].bOut \o Take(bytes, n),
                                  !.trace = Append(@, "send")])

\* request.write(&mut remote).await?;  write_all may fail part way
ClientWriteRequest(i) ==
    /\ IsClient(i) /\ h[i].pc = "send"
    /\ LET bytes == RequestToBytes(h[i].request)
       IN  \/ Step(i, [h[i] EXCEPT !.pc = "await", !.request = None,
                                   !.bOut = h[i].bOut \o bytes,
                                   !.trace = Append(@, "send")])
           \/ \E n \in WritePrefixes(bytes) :
                Step(i, Return([h[i] EXCEPT !.bOut = h[i].bOut \o Take(bytes, n)],
                               FALSE, "send"))

\* a variant that relays whatever the response is
ClientReadResponseAlwaysRelay(i) ==
    /\ IsClient(i) /\ h[i].pc = "await"
    /\ \E input \in RemoteInputs(i) :
         LET r == ResponseRead(input)
         IN  IF r.kind = "ok"
             THEN Step(i, [h[i] EXCEPT !.pc = "relay", !.respByte = input[1],
                                       !.bIn = Drop(input, r.consumed),
                                       !.trace = @ \o <<"await", "relay">>])
             ELSE Step(i, Return(h[i], FALSE, "await"))

\* let response = Response::read(&mut remote).await?;
\* if let Response::Succeed = response { copy_bidirectional(..).await?; }  Ok(())
\* the far end sent `input`; a read past its end is an end-of-stream error
ClientReadResponse(i) ==
    /\ IsClient(i) /\ h[i].pc = "await"
    /\ \E input \in RemoteInputs(i) :
         LET r == ResponseRead(input)
         IN  IF r.kind = "ok"
             THEN IF r.val = Succeed
                  THEN Step(i, [h[i] EXCEPT !.pc = "relay", !.respByte = input[1],
                                            !.bIn = Drop(input, r.consumed),
                                            !.trace = @ \o <<"await", "relay">>])
                  ELSE Step(i, Return([h[i] EXCEPT !.respByte = input[1],
                                                   !.trace = Append(@, "await")],
                                      TRUE, "none"))
             ELSE Step(i, Return(h[i], FALSE, "await"))

----------------------------------------------------------------------------
(* tokio::io::copy_bidirectional(a, b): two copies run concurrently; a copy
   that reads end-of-stream flushes, shuts down the write side of its
   destination and is done; the call returns when both copies are done, or
   at the first I/O error of either. *)

Dirs == {"AB", "BA"}

Src(d) == IF d = "AB" THEN "aIn" ELSE "bIn"

Buf(d) == IF d = "AB" THEN "bufAB" ELSE "bufBA"

Dst(d) == IF d = "AB" THEN "relAB" ELSE "relBA"

Done(d) == IF d = "AB" THEN "doneAB" ELSE "doneBA"

RelayRead(i, d) ==
    /\ h[i].pc = "relay" /\ ~h[i][Done(d)]
    /\ h[i][Src(d)] # <<>>
    /\ Step(i, [h[i] EXCEPT ![Buf(d)] = @ \o h[i][Src(d)], ![Src(d)] = <<>>])

\* a variant that forgets what a partial write left in the buffer
RelayWriteLossy(i, d) ==
    /\ h[i].pc = "relay" /\ ~h[i][Done(d)]
    /\ h[i][Buf(d)] # <<>>
    /\ \E n \in 1..Len(h[i][Buf(d)]) :
         Step(i, [h[i] EXCEPT ![Dst(d)] = @ \o Take(h[i][Buf(d)], n),
                              ![Buf(d)] = <<>>])

RelayWrite(i, d) ==
    /\ h[i].pc = "relay" /\ ~h[i][Done(d)]
    /\ h[i][Buf(d)] # <<>>
    /\ \E n \in 1..Len(h[i][Buf(d)]) :
         Step(i, [h[i] EXCEPT ![Dst(d)] = @ \o Take(h[i][Buf(d)], n),
                              ![Buf(d)] = Drop(@, n)])

\* the peer of the source closed: the copy reads end-of-stream once everything
\* sent was read, and with nothing left to write it shuts down and is done
RelayEof(i, d) ==
    /\ h[i].pc = "relay" /\ ~h[i][Done(d)]
    /\ h[i][Src(d)] = <<>> /\ h[i][Buf(d)] = <<>>
    /\ Step(i, [h[i] EXCEPT ![Done(d)] = TRUE])

\* both directions done: Ok, and the handler returns Ok(())
RelayReturn(i) ==
    /\ h[i].pc = "relay"
    /\ h[i].doneAB /\ h[i].doneBA
    /\ Step(i, Return(h[i], TRUE, "none"))

\* a read or write of either leg fails: Err, propagated by `?`
RelayIoError(i) ==
    /\ h[i].pc = "relay"
    /\ Step(i, Return(h[i], FALSE, "relay"))

----------------------------------------------------------------------------
(* The peers of the two streams during the relay *)

RECURSIVE SentUpTo(_)
SentUpTo(n) == IF n = 0 THEN 0 ELSE h[n].aSent + h[n].bSent + SentUpTo(n - 1)

TotalSent == SentUpTo(MaxConn)

\* how many bytes the peers send in all: MaxCopyBytes to a relay taken alone,
\* MaxRelayBytes to the relays of an endpoint
ByteBudget == IF role = "relay" THEN MaxCopyBytes ELSE MaxRelayBytes

PeerSendA(i) ==
    /\ h[i].pc = "relay" /\ ~h[i].doneAB
    /\ TotalSent < ByteBudget
    /\ Step(i, [h[i] EXCEPT !.aIn = Append(@, 65 + h[i].aSent), !.aSent = @ + 1])

PeerSendB(i) ==
    /\ h[i].pc = "relay" /\ ~h[i].doneBA
    /\ TotalSent < ByteBudget
    /\ Step(i, [h[i] EXCEPT !.bIn = Append(@, 97 + h[i].bSent), !.bSent = @ + 1])

----------------------------------------------------------------------------
(* ServerHandlerContextBuilder and ServerBuilder.  Every method takes the
   builder by value and hands it back, build consumes it; `expect` on a None
   panics, and the thread that was building unwinds. *)

Some(v) == [tag |-> "Some", val |-> v]

Resolvers == {"r1", "r2"}

Accepts == {"a1", "a2"}

\* both builders fresh from new(), nothing built
NewBuilders ==
    [ctxBuilder |-> [live |-> TRUE, resolver |-> None],
     srvBuilder |-> [live |-> TRUE, accept |-> None, context |-> None],
     context |-> None, server |-> None, panicked |-> FALSE, calls |-> <<>>]

\* no builder in play
NoBuilders ==
    [ctxBuilder |-> [live |-> FALSE, resolver |-> None],
     srvBuilder |-> [live |-> FALSE, accept |-> None, context |-> None],
     context |-> None, server |-> None, panicked |-> FALSE, calls |-> <<>>]

\* a Server as ServerBuilder::build returns it
Constructed ==
    [NoBuilders EXCEPT !.server = Some([accept |-> "a1", context |-> [resolver |-> "r1"]])]

Building == role = "build" /\ ~build.panicked /\ Len(build.calls) < MaxCalls

Called(b, name) == [b EXCEPT !.calls = Append(@, name)]

BuildStep(b) ==
    /\ build' = b
    /\ UNCHANGED <<role, loop, held, pulls, h, CodecVars>>

\* ServerHandlerContextBuilder::with_resolver
with_resolver ==
    /\ Building /\ build.ctxBuilder.live
    /\ \E r \in Resolvers :
         BuildStep([Called(build, "with_resolver") EXCEPT !.ctxBuilder.resolver = Some(r)])

\* ServerHandlerContextBuilder::build
ContextBuild ==
    /\ Building /\ build.ctxBuilder.live
    /\ LET b == [Called(build, "context_build") EXCEPT !.ctxBuilder.live = FALSE]
       IN  IF build.ctxBuilder.resolver = None
           THEN BuildStep([b EXCEPT !.panicked = TRUE])
           ELSE BuildStep([b EXCEPT !.context = Some([resolver |-> build.ctxBuilder.resolver.val])])

\* ServerBuilder::with_accept
with_accept ==
    /\ Building /\ build.srvBuilder.live
    /\ \E a \in Accepts :
         BuildStep([Called(build, "with_accept") EXCEPT !.srvBuilder.accept = Some(a)])

\* ServerBuilder::with_context: the context value moves into the builder
with_context ==
    /\ Building /\ build.srvBuilder.live
    /\ build.context # None
    /\ BuildStep([Called(build, "with_context") EXCEPT !.srvBuilder.context = build.context,
                                                        !.context = None])

\* a variant that builds with whatever it was given
ServerBuildUnchecked ==
    /\ Building /\ build.srvBuilder.live
    /\ build' = [Called(build, "server_build") EXCEPT
                     !.srvBuilder.live = FALSE,
                     !.server = Some([accept |-> build.srvBuilder.accept,
                                      context |-> build.srvBuilder.context])]
    /\ role' = "server"
    /\ loop' = "fetch"
    /\ UNCHANGED <<held, pulls, h, CodecVars>>

\* ServerBuilder::build; the Server it returns is the one `start` runs on
ServerBuild ==
    /\ Building /\ build.srvBuilder.live
    /\ LET b == [Called(build, "server_build") EXCEPT !.srvBuilder.live = FALSE]
       IN  IF build.srvBuilder.accept = None \/ build.srvBuilder.context = None
           THEN /\ build' = [b EXCEPT !.panicked = TRUE]
                /\ UNCHANGED <<role, loop>>
           ELSE /\ build' = [b EXCEPT !.server = Some([accept |-> build.srvBuilder.accept.val,
                                                      context |-> build.srvBuilder.context.val])]
                /\ role' = "server"
                /\ loop' = "fetch"
    /\ UNCHANGED <<held, pulls, h, CodecVars>>

----------------------------------------------------------------------------
(* Specifications *)

\* after construction of a Server or of a Client
Init ==
    /\ role \in {"server", "client"}
    /\ loop = IF role = "server" THEN "fetch" ELSE "local"
    /\ held = None
    /\ pulls = NoPulls
    /\ h = [i \in Slots |-> Unborn]
    /\ cPc = "start" /\ cIn = [ty |-> "none"] /\ cWire = <<>> /\ cOut = NoOut
    /\ build = IF role = "server" THEN Constructed ELSE NoBuilders

HandlerStep(i) ==
    \/ ServerReadRequest(i)
    \/ ToSocketAddress(i)
    \/ ServerDial(i)
    \/ ServerWriteResponse(i)
    \/ ClientWriteRequest(i)
    \/ ClientReadResponse(i)
    \/ \E d \in Dirs : RelayRead(i, d)
    \/ \E d \in Dirs : RelayWrite(i, d)
    \/ RelayReturn(i)

\* what the environment does to a running relay
EnvStep(i) ==
    \/ PeerSendA(i)
    \/ PeerSendB(i)
    \/ \E d \in Dirs : RelayEof(i, d)
    \/ RelayIoError(i)

StartStep ==
    \/ ServerStartSome
    \/ ServerStartNone
    \/ ClientStartLocalSome
    \/ ClientStartLocalNone
    \/ ClientStartRemoteSome
    \/ ClientStartRemoteNone

Next ==
    \/ StartStep
    \/ \E i \in Slots : HandlerStep(i)
    \/ \E i \in Slots : EnvStep(i)

Spec == Init /\ [][Next]_vars

CodecInit ==
    /\ role = "codec"
    /\ loop = "none"
    /\ held = None
    /\ pulls = NoPulls
    /\ h = [i \in Slots |-> Unborn]
    /\ cPc = "start" /\ cIn \in CodecInputs /\ cWire = <<>> /\ cOut = NoOut
    /\ build = NoBuilders

CodecNext ==
    \/ EncodeAddress
    \/ EncodeRequest
    \/ EncodeResponse
    \/ FeedRaw
    \/ DecodeAddress
    \/ DecodeRequest
    \/ DecodeResponse

CodecSpec == CodecInit /\ [][CodecNext]_vars

\* a program that configures the two builders, builds, and starts the server
BuildInit ==
    /\ role = "build"
    /\ loop = "none"
    /\ held = None
    /\ pulls = NoPulls
    /\ h = [i \in Slots |-> Unborn]
    /\ cPc = "start" /\ cIn = [ty |-> "none"] /\ cWire = <<>> /\ cOut = NoOut
    /\ build = NewBuilders

BuildNext ==
    \/ with_resolver
    \/ ContextBuild
    \/ with_accept
    \/ with_context
    \/ ServerBuild
    \/ ServerStartSome
    \/ ServerStartNone

BuildSpec == BuildInit /\ [][BuildNext]_vars

\* a server handler and a client handler as they enter copy_bidirectional
ServerRelaying ==
    [Unborn EXCEPT !.pc = "relay", !.aId = 1, !.bId = 1,
                   !.aHeld = "owned", !.bHeld = "owned",
                   !.aOut = <<SUCCEED>>,
                   !.trace = <<"read", "resolve", "dial", "write", "relay">>]

ClientRelaying ==
    [Unborn EXCEPT !.pc = "relay", !.aId = 1, !.bId = 1,
                   !.aHeld = "owned", !.bHeld = "owned",
                   !.bOut = RequestToBytes(TCPConnect(ExampleDomain)),
                   !.respByte = SUCCEED,
                   !.trace = <<"send", "await", "relay">>]

\* one relay taken alone, from the call of copy_bidirectional to its return
RelayInit ==
    /\ role = "relay"
    /\ loop = "done"
    /\ held = None
    /\ pulls = NoPulls
    /\ \E hr \in {ServerRelaying, ClientRelaying} :
         h = [i \in Slots |-> IF i = 1 THEN hr ELSE Unborn]
    /\ cPc = "start" /\ cIn = [ty |-> "none"] /\ cWire = <<>> /\ cOut = NoOut
    /\ build = NoBuilders

RelayNext ==
    \E i \in Slots :
        \/ \E d \in Dirs : RelayRead(i, d)
        \/ \E d \in Dirs : RelayWrite(i, d)
        \/ \E d \in Dirs : RelayEof(i, d)
        \/ RelayReturn(i)
        \/ RelayIoError(i)
        \/ PeerSendA(i)
        \/ PeerSendB(i)

RelaySpec == RelayInit /\ [][RelayNext]_vars

\* a client handler and a server handler on the two ends of one stream
TunnelInit ==
    /\ role = "tunnel"
    /\ loop = "done"
    /\ held = None
    /\ pulls = NoPulls
    /\ \E r \in TunnelRequests :
         h = [i \in Slots |->
                IF i = TunnelClient
                THEN [Unborn EXCEPT !.pc = "send", !.aId = 1, !.bId = 1, !.request = r,
                                    !.aHeld = "owned", !.bHeld = "owned"]
                ELSE IF i = TunnelServer
                THEN [Unborn EXCEPT !.pc = "read", !.aId = 1, !.aHeld = "owned"]
                ELSE Unborn]
    /\ cPc = "start" /\ cIn = [ty |-> "none"] /\ cWire = <<>> /\ cOut = NoOut
    /\ build = NoBuilders

\* each relay sees the far end of its streams as its environment
TunnelNext ==
    \/ \E i \in Slots : HandlerStep(i)
    \/ \E i \in Slots : EnvStep(i)

\* the runtime polls every spawned handler whose next step is ready
Fairness == \A i \in Slots : WF_vars(HandlerStep(i))

FairSpec == Init /\ [][Next]_vars /\ Fairness

TunnelSpec == TunnelInit /\ [][TunnelNext]_vars /\ Fairness

----------------------------------------------------------------------------
(* Claims *)

Spawned(i) == h[i].pc # "unborn"

Handshake == <<"read", "resolve", "dial", "write", "relay">>

Has(seq, x) == \E k \in 1..Len(seq) : seq[k] = x

\* C1: a server handler writes nothing to the accepted stream but the single
\* byte 0x01, writes it only after the request was read, the address resolved
\* and the destination dialed, in that order, and relays only after that write
\* succeeded.
C1_ServerHandshakeOrder ==
    role = "server" =>
        \A i \in Slots :
            /\ h[i].aOut \in {<<>>, <<SUCCEED>>}
            /\ IsPrefix(h[i].trace, Handshake)
            /\ h[i].aOut = <<SUCCEED>> <=> Has(h[i].trace, "write")
            /\ h[i].pc = "relay" =>
                   /\ h[i].trace = Handshake
                   /\ h[i].aOut = <<SUCCEED>>
                   /\ h[i].bHeld = "owned"
            /\ h[i].pc = "write" => h[i].trace = <<"read", "resolve", "dial">>
            /\ Has(h[i].trace, "relay") => h[i].aOut = <<SUCCEED>>

C1_Witness ==
    \E i \in Slots :
        role = "server" /\ h[i].pc = "relay" /\ h[i].aOut = <<SUCCEED>> /\ h[i].trace = Handshake

\* C2: a server handler that fails at reading the request, at resolving or at
\* dialing has terminated with nothing written to the accepted stream, never
\* relayed, and released the accepted stream.
C2_ServerFailureIsSilent ==
    role = "server" =>
        \A i \in Slots :
            h[i].failedAt \in {"read", "resolve", "dial"} =>
                /\ h[i].pc = "done" /\ h[i].result = "err"
                /\ h[i].aOut = <<>>
                /\ ~Has(h[i].trace, "relay")
                /\ h[i].relAB = <<>> /\ h[i].relBA = <<>>
                /\ h[i].aHeld = "released"

C2_Witness ==
    /\ role = "server"
    /\ \E i \in Slots : h[i].failedAt = "resolve" /\ h[i].pc = "done" /\ h[i].aOut = <<>>
    /\ \E i \in Slots : h[i].failedAt = "read" /\ h[i].pc = "done"

\* C3: a client handler relays if and only if the response byte it read is
\* 0x01; after any other byte it has terminated with Ok, copied nothing in
\* either direction and released both streams.
C3_ClientRelaysOnlyOnSucceed ==
    role = "client" =>
        \A i \in Slots :
            /\ Has(h[i].trace, "relay") <=> h[i].respByte = SUCCEED
            /\ h[i].pc = "relay" => h[i].respByte = SUCCEED
            /\ h[i].respByte \notin {-1, SUCCEED} =>
                   /\ h[i].pc = "done" /\ h[i].result = "ok"
                   /\ h[i].relAB = <<>> /\ h[i].relBA = <<>>
                   /\ h[i].bufAB = <<>> /\ h[i].bufBA = <<>>
                   /\ h[i].aOut = <<>>
                   /\ h[i].aHeld = "released" /\ h[i].bHeld = "released"

C3_Witness ==
    /\ role = "client"
    /\ \E i \in Slots : h[i].respByte = NO_ACCEPTABLE_REQUEST /\ h[i].pc = "done" /\ h[i].result = "ok"
    /\ \E i \in Slots : h[i].respByte = SUCCEED /\ h[i].pc = "relay"

\* C4: once a pull on any source returned no item, the start loop pulls no
\* more and spawns no more.
C4_NoPullAfterNone ==
    [][pulls.noneSeen => (pulls'.fetches = pulls.fetches /\ pulls'.spawned = pulls.spawned)]_vars

\* C5: a local item whose remote pull returned no item gets no handler, is
\* released, and is not kept for a later remote stream.
C5_UnpairedLocalDropped ==
    role = "client" =>
        \A k \in pulls.unpaired :
            /\ k \in pulls.releasedLocals
            /\ \A i \in Slots : h[i].aId # k
            /\ held.tag = "Some" => held.id # k

C5_Witness ==
    /\ role = "client"
    /\ \E k \in pulls.unpaired : \E i \in Slots : Spawned(i) /\ h[i].aId > k

\* C6 as stated: every item a source yielded has its handler (between two
\* iterations of the loop).
C6_HandlerPerItem ==
    /\ role = "server" => pulls.spawned = pulls.accepted
    /\ (role = "client" /\ loop \in {"local", "done"}) =>
           /\ pulls.spawned = pulls.locals
           /\ pulls.spawned = pulls.remotes

\* C6 amended: every stream the server's accept source yielded, and every
\* remote stream the client's remote source yielded (with the local item pulled
\* just before it), has exactly one handler, the handlers own distinct items,
\* and neither the loop nor a handler waits for another handler: the loop can
\* pull and every handshake step can run whatever state the others are in.
C6_HandlerPerAcceptedOrRemote ==
    /\ Cardinality({i \in Slots : Spawned(i)}) = pulls.spawned
    /\ role = "server" => pulls.spawned = pulls.accepted
    /\ role = "client" => pulls.spawned = pulls.remotes /\ pulls.remotes <= pulls.locals
    /\ \A i, j \in Slots :
           (Spawned(i) /\ Spawned(j) /\ i # j) =>
               /\ h[i].aId # h[j].aId
               /\ h[i].bId # h[j].bId \/ h[i].bId = 0
    /\ (role = "server" /\ loop = "fetch" /\ pulls.spawned < MaxConn) => ENABLED ServerStartSome
    /\ (role = "client" /\ loop = "local" /\ pulls.locals < MaxConn) => ENABLED ClientStartLocalSome
    /\ (role = "client" /\ loop = "remote" /\ pulls.spawned < MaxConn) => ENABLED ClientStartRemoteSome
    /\ \A i \in Slots :
           /\ h[i].pc = "read" => ENABLED ServerReadRequest(i)
           /\ h[i].pc = "resolve" => ENABLED ToSocketAddress(i)
           /\ h[i].pc = "dial" => ENABLED ServerDial(i)
           /\ h[i].pc = "write" => ENABLED ServerWriteResponse(i)
           /\ h[i].pc = "send" => ENABLED ClientWriteRequest(i)
           /\ h[i].pc = "await" => ENABLED ClientReadResponse(i)

C6_Witness ==
    \E i, j \in Slots :
        /\ h[i].pc = "done" /\ h[i].failedAt = "read"
        /\ h[j].pc = "relay"
        /\ i < j
        /\ loop = "fetch"

\* C7: a handler that has terminated, on whatever path, has released the
\* accepted or local stream and, if it obtained one, the dialed or remote
\* stream.
C7_StreamsReleased ==
    \A i \in Slots :
        h[i].pc = "done" =>
            /\ h[i].aHeld = "released"
            /\ h[i].bHeld \in {"none", "released"}
            /\ h[i].bHeld = "none" => (role = "server" /\ ~Has(h[i].trace, "dial"))

C7_Witness ==
    \E i \in Slots :
        /\ role = "server" /\ h[i].pc = "done" /\ h[i].failedAt = "dial"
        /\ Has(h[i].trace, "resolve")
        /\ h[i].aHeld = "released"

\* C8: in the relay, once one of the two streams reached end-of-stream the
\* handler eventually terminates.
C8_RelayTerminates ==
    \A i \in Slots :
        (h[i].pc = "relay" /\ (h[i].doneAB \/ h[i].doneBA)) ~> (h[i].pc = "done")

----------------------------------------------------------------------------
(* Claims about the codec *)

\* the values the round trip is claimed for
Constructible(a) == a.tag = "Domain" => Len(a.name) \in 1..255

\* the value a codec input holds
ValueOf(in) ==
    IF in.ty = "addr" THEN in.addr ELSE IF in.ty = "req" THEN in.req ELSE in.resp

AddressOf(in) == IF in.ty = "addr" THEN in.addr ELSE in.req.addr

RoundTrips == cOut.kind = "ok" /\ cOut.val = ValueOf(cIn)

\* C9 as stated: every constructible Address, Request and Response is read
\* back equal from its own bytes.
C9_RoundTripAny ==
    (cPc = "decoded" /\ cIn.ty \in {"addr", "req", "resp"}) =>
        ((cIn.ty \in {"addr", "req"} => Constructible(AddressOf(cIn))) => RoundTrips)

\* C9 amended: the same, for IPv6 only when flowinfo and scope_id are zero.
C9_RoundTrip ==
    (cPc = "decoded" /\ cIn.ty \in {"addr", "req", "resp"}) =>
        ((cIn.ty \in {"addr", "req"} =>
              /\ Constructible(AddressOf(cIn))
              /\ AddressOf(cIn).tag = "IPv6" =>
                     (AddressOf(cIn).flowinfo = 0 /\ AddressOf(cIn).scope_id = 0))
         => RoundTrips)

C9_Witness ==
    /\ cPc = "decoded" /\ cIn.ty = "req"
    /\ cIn.req.addr.tag = "Domain" /\ Len(cIn.req.addr.name) = 255
    /\ cIn.req.addr.port = 9000
    /\ RoundTrips

\* C10: Response::read on a stream that starts with the byte b consumes one
\* byte and answers Succeed when b = 0x01, NoAcceptableMethod otherwise.
C10_ResponseReadTotal ==
    (cPc = "decoded" /\ cIn.ty = "raw" /\ cIn.as = "resp" /\ Len(cWire) >= 1) =>
        /\ cOut.kind = "ok"
        /\ cOut.consumed = 1
        /\ cOut.val = IF cWire[1] = SUCCEED THEN Succeed ELSE NoAcceptableMethod

C10_Witness ==
    /\ cPc = "decoded" /\ cIn.ty = "raw" /\ cIn.as = "resp"
    /\ cWire = <<126, 7>>
    /\ cOut = Ok(NoAcceptableMethod, 1)

IsRaw(d) == cPc = "decoded" /\ cIn.ty = "raw" /\ cIn.as = d /\ Len(cWire) >= 1

AddressTags == {ADDRESS_TYPE_DOMAIN, ADDRESS_TYPE_IPV4, ADDRESS_TYPE_IPV6}

\* C11: Request::read on a stream whose first byte is not 0x01 answers a
\* decode error with one byte consumed; Address::read on a stream whose first
\* byte is none of 0x01, 0x02, 0x03 answers a decode error with one byte
\* consumed; Request::read on 0x01 followed by such a byte answers a decode
\* error with two bytes consumed.  No value is produced.
C11_TagDispatch ==
    /\ (IsRaw("req") /\ cWire[1] # REQUEST_TYPE_TCP_CONNECT) => cOut = ErrOther(1)
    /\ (IsRaw("addr") /\ cWire[1] \notin AddressTags) => cOut = ErrOther(1)
    /\ (IsRaw("req") /\ Len(cWire) >= 2 /\ cWire[1] = REQUEST_TYPE_TCP_CONNECT
            /\ cWire[2] \notin AddressTags) => cOut = ErrOther(2)

C11_Witness ==
    /\ IsRaw("req")
    /\ cWire = <<REQUEST_TYPE_TCP_CONNECT, 9>>
    /\ cOut = ErrOther(2)

\* the number of bytes the format defines for the address that starts s, once
\* its tag and (for a domain) its length byte are known
Defined(s) ==
    IF s[1] = ADDRESS_TYPE_DOMAIN THEN (IF Len(s) < 2 THEN 2 ELSE 1 + 1 + s[2] + 2)
    ELSE IF s[1] = ADDRESS_TYPE_IPV4 THEN 1 + 4 + 2
    ELSE 1 + 16 + 2

\* the fields an address decoded from the first Defined(s) bytes of s holds
FieldsFrom(a, s) ==
    LET n == Defined(s)
    IN  /\ a.port = s[n - 1] * 256 + s[n]
        /\ IF s[1] = ADDRESS_TYPE_DOMAIN THEN a.tag = "Domain" /\ a.name = SubSeq(s, 3, n - 2)
           ELSE IF s[1] = ADDRESS_TYPE_IPV4 THEN a.tag = "IPv4" /\ a.ip = SubSeq(s, 2, 5)
           ELSE a.tag = "IPv6" /\ a.ip = SubSeq(s, 2, 17)

\* C12: Address::read on a stream that starts with a known tag consumes
\* exactly the bytes the format defines (1 + 1 + L + 2, 1 + 4 + 2, 1 + 16 + 2)
\* and leaves what follows unread, the address it answers is made of exactly
\* those bytes, and on a stream that ends before them it answers an
\* end-of-stream I/O error, never an address.
C12_ExactConsumption ==
    (IsRaw("addr") /\ cWire[1] \in AddressTags) =>
        IF Len(cWire) >= Defined(cWire)
        THEN /\ cOut.kind \in {"ok", "other"}
             /\ cOut.consumed = Defined(cWire)
             /\ cOut.kind = "ok" => FieldsFrom(cOut.val, cWire)
             /\ cOut.kind = "other" => cWire[1] = ADDRESS_TYPE_DOMAIN
        ELSE cOut.kind = "eof" /\ cOut.consumed = Len(cWire)

C12_Witness ==
    /\ IsRaw("addr")
    /\ cWire = <<ADDRESS_TYPE_DOMAIN, 0, 0, 80, 1, 2>>
    /\ cOut = Ok(Domain(<<>>, 80), 4)

\* the codec input is a Domain (alone or in a request) whose name is longer
\* than the length byte can say
TooLong == cIn.ty \in {"addr", "req"} /\ AddressOf(cIn).tag = "Domain"
               /\ Len(AddressOf(cIn).name) > 255

\* bytes of a request before its address
Lead == IF cIn.ty = "req" THEN 1 ELSE 0

\* C19: for a Domain whose name has L > 255 bytes to_bytes produces the
\* length byte L mod 256, all L name bytes and the port; read on these bytes
\* consumes only 1 + 1 + (L mod 256) + 2 of them, leaves the rest unread, and
\* answers an error or an address other than the original.
C19_LengthWraps ==
    (TooLong /\ cPc \in {"encoded", "decoded"}) =>
        LET a == AddressOf(cIn)
            L == Len(a.name)
        IN  /\ Len(cWire) = Lead + 1 + 1 + L + 2
            /\ cWire[Lead + 2] = L % 256
            /\ SubSeq(cWire, Lead + 3, Lead + 2 + L) = a.name
            /\ SubSeq(cWire, Lead + 3 + L, Lead + 4 + L) = <<a.port \div 256, a.port % 256>>
            /\ cPc = "decoded" =>
                   /\ cOut.consumed = Lead + 1 + 1 + (L % 256) + 2
                   /\ cOut.consumed < Len(cWire)
                   /\ cOut.kind = "ok" => cOut.val # ValueOf(cIn)

C19_Witness ==
    /\ cPc = "decoded" /\ cIn.ty = "addr"
    /\ cIn.addr = Domain(LongName(257), 80)
    /\ cOut = Ok(Domain(<<97>>, 97 * 256 + 97), 5)
    /\ Len(cWire) = 261

----------------------------------------------------------------------------
(* Claims about construction *)

\* position of the first call of that name, 0 when there is none
FirstCall(name) ==
    IF Has(build.calls, name)
    THEN CHOOSE k \in 1..Len(build.calls) :
             build.calls[k] = name /\ \A j \in 1..(k - 1) : build.calls[j] # name
    ELSE 0

CalledBefore(name, k) == \E j \in 1..(k - 1) : build.calls[j] = name

ContextExists ==
    \/ build.context # None
    \/ build.srvBuilder.context # None
    \/ build.server # None

\* C13: ServerHandlerContextBuilder::build yields a context if and only if
\* with_resolver was called before it, ServerBuilder::build yields a Server if
\* and only if with_accept and with_context were both called before it; a build
\* that does not succeed panics and leaves no value, and start pulls only on a
\* Server that holds an accept source and a context with a resolver.
C13_BuildFailsFast ==
    role \in {"build", "server"} =>
        LET cb == FirstCall("context_build")
            sb == FirstCall("server_build")
        IN  /\ cb > 0 => (ContextExists <=> CalledBefore("with_resolver", cb))
            /\ cb = 0 => ~ContextExists
            /\ sb > 0 => ((build.server # None) <=>
                             (CalledBefore("with_accept", sb) /\ CalledBefore("with_context", sb)))
            /\ build.panicked <=>
                   \/ (cb > 0 /\ ~CalledBefore("with_resolver", cb))
                   \/ (sb > 0 /\ ~(CalledBefore("with_accept", sb) /\ CalledBefore("with_context", sb)))
            /\ (pulls.fetches > 0 \/ role = "server") =>
                   /\ build.server # None /\ ~build.panicked
                   /\ build.server.val.accept \in Accepts
                   /\ build.server.val.context.resolver \in Resolvers

C13_Witness ==
    /\ role = "server" /\ pulls.fetches > 0
    /\ build.calls = <<"with_accept", "with_resolver", "with_resolver", "context_build",
                       "with_context", "server_build">>
    /\ build.server # None

----------------------------------------------------------------------------
(* More claims about the endpoints *)

ClientHandshake == <<"send", "await", "relay">>

WholeRequest(bytes) == \E r \in ClientRequests : bytes = RequestToBytes(r)

\* C14: a client handler reads the response only after the whole request was
\* written to the remote stream; when the write fails it has terminated with
\* no response read and no relay, and when the read fails it has terminated
\* with no relay.
C14_ClientHandshakeSequential ==
    role = "client" =>
        \A i \in Slots :
            /\ IsPrefix(h[i].trace, ClientHandshake)
            /\ (h[i].pc = "await" \/ h[i].respByte # -1 \/ h[i].failedAt = "await"
                    \/ Has(h[i].trace, "await")) =>
                   /\ WholeRequest(h[i].bOut)
                   /\ Has(h[i].trace, "send")
            /\ h[i].failedAt = "send" =>
                   /\ h[i].pc = "done" /\ h[i].result = "err"
                   /\ ~WholeRequest(h[i].bOut)
                   /\ h[i].trace = <<>>
                   /\ h[i].respByte = -1
                   /\ h[i].relAB = <<>> /\ h[i].relBA = <<>>
            /\ h[i].failedAt = "await" =>
                   /\ h[i].pc = "done" /\ h[i].result = "err"
                   /\ h[i].trace = <<"send">>
                   /\ h[i].respByte = -1
                   /\ h[i].relAB = <<>> /\ h[i].relBA = <<>>

C14_Witness ==
    /\ role = "client"
    /\ \E i \in Slots : h[i].failedAt = "send" /\ Len(h[i].bOut) = 1 /\ h[i].pc = "done"
    /\ \E i \in Slots : h[i].failedAt = "await" /\ WholeRequest(h[i].bOut) /\ h[i].pc = "done"

\* the step of handler i leaves the resolve position
Resolved(i) == h[i].pc = "resolve" /\ h'[i].pc # "resolve"

\* C15: to_socket_address calls the resolver exactly once for a Domain, with
\* its name and port, and hands on the address or the error the resolver
\* answered; for IPv4 and IPv6 it calls no resolver, cannot fail and hands on
\* the same address.  A server handler resolves once, so it calls the resolver
\* at most once, and only for a Domain.
C15_ResolverCalledOnceForDomain ==
    [][\A i \in Slots :
          /\ (h'[i].lookups # h[i].lookups /\ h'[i].lookups # <<>>) =>
                 (Resolved(i) /\ h[i].request.addr.tag = "Domain" /\ h[i].lookups = <<>>)
          /\ h'[i].pc = "resolve" => (h[i].pc \in {"read", "resolve"} /\ h'[i].lookups = <<>>)
          /\ Resolved(i) =>
                 LET addr == h[i].request.addr
                 IN  IF addr.tag = "Domain"
                     THEN /\ h'[i].lookups = <<[domain |-> addr.name, port |-> addr.port]>>
                          /\ \/ h'[i].pc = "dial" /\ h'[i].address = Lookup(addr.name, addr.port)
                             \/ h'[i].pc = "done" /\ h'[i].failedAt = "resolve"
                     ELSE /\ h'[i].lookups = <<>>
                          /\ h'[i].pc = "dial"
                          /\ h'[i].address = addr
      ]_vars

C15_Witness ==
    /\ role = "server"
    /\ \E i \in Slots :
         /\ h[i].pc = "dial"
         /\ h[i].lookups = <<[domain |-> ExampleDomain.name, port |-> ExampleDomain.port]>>
         /\ h[i].address = Lookup(ExampleDomain.name, ExampleDomain.port)
    /\ \E i \in Slots : h[i].pc = "dial" /\ h[i].lookups = <<>> /\ h[i].address = LoopbackV6

\* the bytes the peer of stream A (base 65) or B (base 97) sent so far
Sent(n, base) == [k \in 1..n |-> base + k - 1]

\* every byte sent is delivered, buffered or not yet read, once, in order
Conserved(hr) ==
    /\ hr.relAB \o hr.bufAB \o hr.aIn = Sent(hr.aSent, 65)
    /\ hr.relBA \o hr.bufBA \o hr.bIn = Sent(hr.bSent, 97)

\* C16: in each direction of a relay the bytes written to the destination,
\* followed by the bytes read from the source and not yet written, are the
\* bytes the source's peer sent, in order and once each; what was delivered
\* only grows; after one direction has seen end-of-stream the other still
\* writes what it holds, and the relay returns Ok only with nothing read and
\* not yet written.
C16_RelayKeepsOrder ==
    /\ [](\A i \in Slots :
              h[i].pc = "relay" =>
                  /\ Conserved(h[i])
                  /\ \A d \in Dirs :
                         (~h[i][Done(d)] /\ h[i][Buf(d)] # <<>>) => ENABLED RelayWrite(i, d))
    /\ [][\A i \in Slots :
              /\ (h[i].pc = "relay" /\ h'[i].pc = "relay") =>
                     /\ IsPrefix(h[i].relAB, h'[i].relAB)
                     /\ IsPrefix(h[i].relBA, h'[i].relBA)
                     /\ \A d \in Dirs : (h'[i][Done(d)] /\ ~h[i][Done(d)]) => h[i][Buf(d)] = <<>>
              /\ (h[i].pc = "relay" /\ h'[i].pc = "done" /\ h'[i].result = "ok") =>
                     /\ h[i].bufAB = <<>> /\ h[i].bufBA = <<>>
                     /\ h[i].relAB = Sent(h[i].aSent, 65)
                     /\ h[i].relBA = Sent(h[i].bSent, 97)
       ]_vars

C16_Witness ==
    /\ role = "relay"
    /\ h[1].pc = "relay" /\ h[1].doneAB
    /\ h[1].relAB = <<65>>
    /\ h[1].relBA = <<97>> /\ h[1].bufBA = <<98>>

\* pulls on the remote source so far: those answered with a stream and those
\* answered with no item
RemotePulls == pulls.remotes + Cardinality(pulls.unpaired)

\* C18: in Client::start the remote source is pulled only while the local item
\* of the iteration is held; remote pulls never outnumber the local items
\* obtained, every remote stream obtained has its handler, and the pull on the
\* local source that returns no item ends the loop with no pull on the remote
\* source, after which nothing is pulled.
C18_RemotePulledOnlyWithLocal ==
    /\ [](role = "client" =>
              /\ RemotePulls <= pulls.locals
              /\ pulls.spawned = pulls.remotes
              /\ \A k \in 1..pulls.remotes : \E i \in Slots : Spawned(i) /\ h[i].bId = k
              /\ loop = "remote" <=> held # None
              /\ loop = "remote" => RemotePulls = pulls.locals - 1
              /\ loop # "remote" => RemotePulls = pulls.locals)
    /\ [][role = "client" =>
              /\ RemotePulls' # RemotePulls =>
                     /\ loop = "remote" /\ held # None
                     /\ RemotePulls' = RemotePulls + 1
                     /\ held' = None
              /\ (loop = "local" /\ loop' = "done") =>
                     /\ RemotePulls' = RemotePulls
                     /\ pulls'.locals = pulls.locals
                     /\ pulls'.fetches = pulls.fetches + 1
              /\ loop = "done" => pulls' = pulls /\ loop' = "done"
       ]_vars

C18_Witness ==
    /\ role = "client" /\ loop = "done"
    /\ pulls.locals = 2 /\ pulls.remotes = 1 /\ pulls.unpaired = {1}
    /\ pulls.spawned = 1
    /\ h[1].bId = 1 /\ h[1].aId = 2

----------------------------------------------------------------------------
(* Claims about a client handler and a server handler on one stream *)

ServerAborted == h[TunnelServer].failedAt \in {"read", "resolve", "dial"}

ClientGaveUp ==
    /\ h[TunnelClient].pc = "done" /\ h[TunnelClient].result = "err"
    /\ h[TunnelClient].failedAt \in {"send", "await"}
    /\ h[TunnelClient].respByte = -1
    /\ ~Has(h[TunnelClient].trace, "relay")

\* C17: with the client's remote stream being the server's accepted stream,
\* the client relays only after the server dialed the destination and wrote
\* Succeed; and once the server has failed at reading the request, resolving
\* or dialing, the client never relays, its read of the response meets
\* end-of-stream, and it terminates with that error.
C17_TunnelHandshake ==
    /\ [](role = "tunnel" =>
              /\ Has(h[TunnelClient].trace, "relay") =>
                     /\ Has(h[TunnelServer].trace, "dial")
                     /\ h[TunnelServer].aOut = <<SUCCEED>>
              /\ h[TunnelClient].respByte \in {-1, SUCCEED}
              /\ ServerAborted =>
                     /\ ~Has(h[TunnelClient].trace, "relay")
                     /\ h[TunnelClient].pc \in {"await", "done"}
                     /\ h[TunnelClient].pc = "await" => ENABLED ClientReadResponse(TunnelClient)
                     /\ h[TunnelClient].pc = "done" => ClientGaveUp)
    /\ ((role = "tunnel" /\ ServerAborted) ~> ClientGaveUp)

C17_Witness ==
    /\ role = "tunnel"
    /\ h[TunnelServer].failedAt = "read"
    /\ h[TunnelClient].pc = "done" /\ h[TunnelClient].failedAt = "await"
    /\ Len(h[TunnelClient].bOut) = 1 + 1 + 1 + 257 + 2

====
